---- MODULE Spec2Model ----
(***************************************************************************)
(* A model of GetImage.py: main() constructs a BingImageDownloader and     *)
(* calls download_image(), which fetches the metadata record of the image  *)
(* of the day, derives the file name, skips the download when the file     *)
(* exists, and otherwise streams the image to disk and dumps the record    *)
(* beside it.  The save directory is the only state shared between runs.   *)
(***************************************************************************)
EXTENDS Naturals, Sequences, FiniteSets, TLC

\* ---------------------------------------------------------------- bounds
MaxRuns == 2      \* runs of main() over the life of the save directory
MaxDate == 2      \* calendar days the runs may spread over
MaxChunks == 1    \* chunks iter_content yields before the body ends

\* ------------------------------------------------------ the environment
Procs == {1, 2}

Days == << [y |-> 2024, m |-> 12, d |-> 31], [y |-> 2025, m |-> 1, d |-> 1],
           [y |-> 2025, m |-> 1, d |-> 2] >>

\* HTTP statuses the two endpoints may answer with; NoResponse is a request
\* that never got an answer (connection error, timeout).  A 304 answer
\* carries no body.
Statuses == {200, 304, 404, 500}
NoResponse == [status |-> 0, body |-> [json |-> FALSE]]
HasBody(status) == status # 304

\* Titles are sequences of characters/tokens; " " is the space character.
TitleAB == <<"A", " ", "B">>
TitleA_B == <<"A", "_", "B">>

\* Records of the images array.
RecAB == [url |-> "/th?id=1", title |-> TitleAB]
RecA_B == [url |-> "/th?id=2", title |-> TitleA_B]
RecNoTitle == [url |-> "/th?id=3"]
RecNoUrl == [title |-> TitleAB]
NoRecord == [none |-> TRUE]

\* Bodies of the metadata response: not JSON, or a JSON object.
Bodies ==
  { [json |-> FALSE],
    [json |-> TRUE, value |-> [error |-> "quota"]],
    [json |-> TRUE, value |-> [images |-> <<>>]],
    [json |-> TRUE, value |-> [images |-> <<RecNoUrl>>]],
    [json |-> TRUE, value |-> [images |-> <<RecAB>>]],
    [json |-> TRUE, value |-> [images |-> <<RecA_B>>]],
    [json |-> TRUE, value |-> [images |-> <<RecNoTitle>>]] }

MetaResponses ==
  {NoResponse} \cup {r \in [status : Statuses, body : Bodies] : ~HasBody(r.status) => ~r.body.json}
ImgResponses == {NoResponse} \cup [status : Statuses, body : {[json |-> FALSE]}]

\* Chunks of the image stream: byte sequences, possibly empty.
Chunks == { <<>>, <<7>> }

\* What the remote side and the disk may do to one instance running alone:
\* every response, every chunk, every failure.
Env == [metas |-> MetaResponses, imgs |-> ImgResponses, chunks |-> Chunks,
        days |-> 1 .. MaxDate]

\* What they do in the runs of two instances: the service answers both
\* with the same record or not at all, the image endpoint with the image
\* or an error status, and all of it happens on one day.
ConcEnv ==
  [metas |-> {NoResponse, [status |-> 200, body |-> [json |-> TRUE, value |-> [images |-> <<RecAB>>]]]},
   imgs |-> {[status |-> 200, body |-> [json |-> FALSE]], [status |-> 404, body |-> [json |-> FALSE]]},
   chunks |-> { <<7>> }, days |-> {1}]

\* ------------------------------------------------------- pure functions
bing_base_url == "https://www.bing.com"
save_dir == "bing_images"
fallback_title == <<"bing_image">>

\* requests' Response.raise_for_status: raises HTTPError for 4xx and 5xx.
raise_for_status(status) == status >= 400 /\ status < 600

\* get_image_url: the URL and the record, or the exception raised.
\* get_image_url_lenient reads the record with defaults instead of indexing.
get_image_url_lenient(resp) ==
  IF resp = NoResponse THEN [ok |-> FALSE, err |-> "ConnectionError"]
  ELSE IF raise_for_status(resp.status) THEN [ok |-> FALSE, err |-> "HTTPError"]
  ELSE IF ~resp.body.json THEN [ok |-> FALSE, err |-> "JSONDecodeError"]
  ELSE IF "images" \notin DOMAIN resp.body.value \/ Len(resp.body.value.images) = 0
         THEN [ok |-> TRUE, image_url |-> <<bing_base_url, "">>, image_data |-> [url |-> ""]]
  ELSE LET image_data == resp.body.value.images[1] IN
       IF "url" \notin DOMAIN image_data THEN [ok |-> FALSE, err |-> "KeyError"]
       ELSE [ok |-> TRUE, image_url |-> <<bing_base_url, image_data.url>>,
             image_data |-> image_data]

get_image_url(resp) ==
  IF resp = NoResponse THEN [ok |-> FALSE, err |-> "ConnectionError"]
  ELSE IF raise_for_status(resp.status) THEN [ok |-> FALSE, err |-> "HTTPError"]
  ELSE IF ~resp.body.json THEN [ok |-> FALSE, err |-> "JSONDecodeError"]
  ELSE IF "images" \notin DOMAIN resp.body.value THEN [ok |-> FALSE, err |-> "KeyError"]
  ELSE IF Len(resp.body.value.images) = 0 THEN [ok |-> FALSE, err |-> "IndexError"]
  ELSE LET image_data == resp.body.value.images[1] IN
       IF "url" \notin DOMAIN image_data THEN [ok |-> FALSE, err |-> "KeyError"]
       ELSE [ok |-> TRUE, image_url |-> <<bing_base_url, image_data.url>>,
             image_data |-> image_data]

\* datetime.now().strftime("%Y%m%d")
strftime(day) == day.y * 10000 + day.m * 100 + day.d

\* str.replace(" ", "_")
replace(s) == [i \in DOMAIN s |-> IF s[i] = " " THEN "_" ELSE s[i]]

\* image_data.get("title", "bing_image").replace(" ", "_")
title_of(image_data) ==
  replace(IF "title" \in DOMAIN image_data THEN image_data.title ELSE fallback_title)

\* os.path.join(save_dir, f"{date_str}_{title}.jpg")
image_path(date_str, title) == <<save_dir, "/", date_str, "_">> \o title \o <<".jpg">>

\* os.path.join(save_dir, f"{date_str}_metadata.json")
metadata_path(date_str) == <<save_dir, "/", date_str, "_metadata.json">>

\* json.dump(image_data, f, indent=4): the text, one item per key.
json_dump(image_data) ==
  (IF "url" \in DOMAIN image_data THEN << <<"url", image_data.url>> >> ELSE <<>>)
  \o (IF "title" \in DOMAIN image_data THEN << <<"title", image_data.title>> >> ELSE <<>>)

\* os.path.exists(file_path); exists_never is the check left out.
exists_never(files, path) == FALSE

exists(files, path) == path \in DOMAIN files

\* main's handler: except Exception; main_catches_requests is a handler of
\* requests.RequestException alone.
Exceptions == {"ConnectionError", "HTTPError", "JSONDecodeError", "KeyError",
               "IndexError", "ChunkedEncodingError", "OSError", "FileExistsError"}
main_catches_requests(err) == err \in {"ConnectionError", "HTTPError", "ChunkedEncodingError"}

main_catches(err) == err \in Exceptions

\* ---------------------------------------------------------------- state
VARIABLES
  today,      \* index into Days: the current local date
  dirExists,  \* whether save_dir exists
  fs,         \* the files of save_dir: path -> content
  pc,         \* per process: the position in main / download_image
  loc,        \* per process: download_image's locals
  inv,        \* per process: what the running invocation did so far (history)
  log,        \* the finished invocations of download_image (history)
  out,        \* per process: the standard output of its latest run of main
  exit,       \* per process: the exit status of its latest run of main
  runs,       \* runs of main started so far
  clock       \* orders existence checks and file creations (history)

vars == <<today, dirExists, fs, pc, loc, inv, log, out, exit, runs, clock>>

NoLoc == [image_url |-> <<>>, image_data |-> NoRecord, date_str |-> 0,
          file_path |-> <<>>, status |-> 0, n |-> 0, err |-> "", ret |-> <<>>]
NoInv == [trace |-> <<>>, gets |-> 0, mgets |-> 0, before |-> <<>>,
          opened |-> <<>>, tCheck |-> 0, tOpen |-> 0, body |-> FALSE,
          bytes |-> <<>>, result |-> "", non2xx |-> FALSE, malformed |-> FALSE]

Put(files, path, content) ==
  [q \in DOMAIN files \cup {path} |-> IF q = path THEN content ELSE files[q]]

Remove(files, path) == [q \in DOMAIN files \ {path} |-> files[q]]

Init ==
  /\ today = 1
  /\ dirExists = FALSE
  /\ fs = <<>>
  /\ pc = [p \in Procs |-> "idle"]
  /\ loc = [p \in Procs |-> NoLoc]
  /\ inv = [p \in Procs |-> NoInv]
  /\ log = <<>>
  /\ out = [p \in Procs |-> <<>>]
  /\ exit = [p \in Procs |-> "none"]
  /\ runs = 0
  /\ clock = 0

\* The entry of the log for the invocation of p ending with result res.
Entry(p, res, l, i, files) ==
  [proc |-> p, result |-> res, ret |-> l.ret,
   date_str |-> l.date_str, file_path |-> l.file_path, image_data |-> l.image_data,
   trace |-> i.trace, gets |-> i.gets, opened |-> i.opened,
   tCheck |-> i.tCheck, tOpen |-> i.tOpen, body |-> i.body, bytes |-> i.bytes,
   before |-> i.before, after |-> files]

\* The endpoint answered, with a status outside 200..299.
Non2xx(resp) == resp # NoResponse /\ ~(resp.status >= 200 /\ resp.status < 300)

\* The metadata endpoint answered, with a body that is not JSON or whose
\* images array is absent or empty.
Malformed(resp) ==
  /\ resp # NoResponse
  /\ \/ ~resp.body.json
     \/ "images" \notin DOMAIN resp.body.value
     \/ Len(resp.body.value.images) = 0

\* ------------------------------------------------------------- actions
\* main(): line 102-103, entering BingImageDownloader().
MainStart(p) ==
  /\ pc[p] = "idle"
  /\ runs < MaxRuns
  /\ runs' = runs + 1
  /\ pc' = [pc EXCEPT ![p] = "ctor_check"]
  /\ out' = [out EXCEPT ![p] = <<>>]
  /\ exit' = [exit EXCEPT ![p] = "running"]
  /\ loc' = [loc EXCEPT ![p] = NoLoc]
  /\ inv' = [inv EXCEPT ![p] = NoInv]
  /\ UNCHANGED <<today, dirExists, fs, log, clock>>

\* __init__, line 27: if not os.path.exists(save_dir); download_image is
\* entered when the directory is there.
CtorCheck(p) ==
  /\ pc[p] = "ctor_check"
  /\ IF dirExists
       THEN /\ pc' = [pc EXCEPT ![p] = "fetch"]
            /\ inv' = [inv EXCEPT ![p] = [NoInv EXCEPT !.trace = <<"Init">>, !.before = fs]]
       ELSE /\ pc' = [pc EXCEPT ![p] = "ctor_mkdir"]
            /\ UNCHANGED inv
  /\ UNCHANGED <<today, dirExists, fs, loc, log, out, exit, runs, clock>>

\* __init__, line 28: os.makedirs(save_dir) creates the directory or raises
\* (FileExistsError when it appeared meanwhile, OSError otherwise).
CtorMkdir(p) ==
  /\ pc[p] = "ctor_mkdir"
  /\ IF dirExists
       THEN /\ loc' = [loc EXCEPT ![p].err = "FileExistsError"]
            /\ pc' = [pc EXCEPT ![p] = "main_except"]
            /\ UNCHANGED <<dirExists, inv>>
       ELSE \/ /\ dirExists' = TRUE
               /\ pc' = [pc EXCEPT ![p] = "fetch"]
               /\ inv' = [inv EXCEPT ![p] = [NoInv EXCEPT !.trace = <<"Init">>, !.before = fs]]
               /\ UNCHANGED loc
            \/ /\ loc' = [loc EXCEPT ![p].err = "OSError"]
               /\ pc' = [pc EXCEPT ![p] = "main_except"]
               /\ UNCHANGED <<dirExists, inv>>
  /\ UNCHANGED <<today, fs, log, out, exit, runs, clock>>

\* download_image, lines 94-96: the error is logged and re-raised to main.
Raise(p, e, i, files) ==
  /\ loc' = [loc EXCEPT ![p].err = e, ![p].n = 0, ![p].status = 0]
  /\ inv' = [inv EXCEPT ![p] = [i EXCEPT !.result = "raised"]]
  /\ log' = Append(log, Entry(p, "raised", loc[p], i, files))
  /\ pc' = [pc EXCEPT ![p] = "main_except"]

\* download_image returns file_path to main (line 73 or line 92).
Return(p, i, files) ==
  /\ loc' = [loc EXCEPT ![p].ret = loc[p].file_path, ![p].n = 0, ![p].status = 0]
  /\ inv' = [inv EXCEPT ![p] = [i EXCEPT !.result = "returned"]]
  /\ log' = Append(log, Entry(p, "returned", [loc[p] EXCEPT !.ret = loc[p].file_path], i, files))
  /\ pc' = [pc EXCEPT ![p] = "main_print"]

\* download_image, lines 62-68: get_image_url(), then the file name from
\* the date datetime.now() gives (never earlier than the last one read) and
\* the title.
Fetch(p, env) ==
  /\ pc[p] = "fetch"
  /\ \E resp \in env.metas, now \in {d \in env.days : d >= today} :
       LET r == get_image_url(resp)
           i == [inv[p] EXCEPT !.mgets = @ + 1, !.non2xx = Non2xx(resp),
                               !.malformed = Malformed(resp)]
       IN /\ today' = now
          /\ IF r.ok
            THEN LET date_str == strftime(Days[now]) IN
                 /\ loc' = [loc EXCEPT ![p] =
                              [NoLoc EXCEPT !.image_url = r.image_url,
                                            !.image_data = r.image_data,
                                            !.date_str = date_str,
                                            !.file_path = image_path(date_str, title_of(r.image_data))]]
                 /\ inv' = [inv EXCEPT ![p] = [i EXCEPT !.trace = Append(@, "FetchedMetadata")]]
                 /\ pc' = [pc EXCEPT ![p] = "check"]
                 /\ UNCHANGED log
            ELSE Raise(p, r.err, i, fs)
  /\ UNCHANGED <<dirExists, fs, out, exit, runs, clock>>

\* download_image, lines 71-73: the existence check, the skip path.
\* Check_regenerates rewrites the metadata file on the skip path.
Check_regenerates(p) ==
  /\ pc[p] = "check"
  /\ clock' = clock + 1
  /\ LET i == [inv[p] EXCEPT !.tCheck = clock + 1] IN
     IF exists(fs, loc[p].file_path)
       THEN LET files == Put(fs, metadata_path(loc[p].date_str), json_dump(loc[p].image_data)) IN
            /\ fs' = files
            /\ Return(p, [i EXCEPT !.trace = @ \o <<"Skipped", "Done">>], files)
       ELSE /\ inv' = [inv EXCEPT ![p] = i]
            /\ pc' = [pc EXCEPT ![p] = "get"]
            /\ UNCHANGED <<fs, loc, log>>
  /\ UNCHANGED <<today, dirExists, out, exit, runs>>

Check(p) ==
  /\ pc[p] = "check"
  /\ clock' = clock + 1
  /\ LET i == [inv[p] EXCEPT !.tCheck = clock + 1] IN
     IF exists(fs, loc[p].file_path)
       THEN Return(p, [i EXCEPT !.trace = @ \o <<"Skipped", "Done">>], fs)
       ELSE /\ inv' = [inv EXCEPT ![p] = i]
            /\ pc' = [pc EXCEPT ![p] = "get"]
            /\ UNCHANGED <<loc, log>>
  /\ UNCHANGED <<today, dirExists, fs, out, exit, runs>>

\* download_image, lines 76-77: the image GET and its status check.
\* Get_retry asks again after an error status.
Get_retry(p, env) ==
  /\ pc[p] = "get"
  /\ \E resp \in env.imgs :
       LET i == [inv[p] EXCEPT !.gets = @ + 1, !.non2xx = @ \/ Non2xx(resp)] IN
       IF resp = NoResponse THEN Raise(p, "ConnectionError", i, fs)
       ELSE IF raise_for_status(resp.status) /\ inv[p].gets >= 1 THEN Raise(p, "HTTPError", i, fs)
       ELSE /\ inv' = [inv EXCEPT ![p] = i]
            /\ pc' = [pc EXCEPT ![p] = IF raise_for_status(resp.status) THEN "get" ELSE "open"]
            /\ loc' = [loc EXCEPT ![p].status = resp.status]
            /\ UNCHANGED log
  /\ UNCHANGED <<today, dirExists, fs, out, exit, runs, clock>>

Get(p, env) ==
  /\ pc[p] = "get"
  /\ \E resp \in env.imgs :
       LET i == [inv[p] EXCEPT !.gets = @ + 1, !.non2xx = @ \/ Non2xx(resp)] IN
       IF resp = NoResponse THEN Raise(p, "ConnectionError", i, fs)
       ELSE IF raise_for_status(resp.status) THEN Raise(p, "HTTPError", i, fs)
       ELSE /\ inv' = [inv EXCEPT ![p] = i]
            /\ pc' = [pc EXCEPT ![p] = "open"]
            /\ loc' = [loc EXCEPT ![p].status = resp.status]
            /\ UNCHANGED log
  /\ UNCHANGED <<today, dirExists, fs, out, exit, runs, clock>>

\* download_image, line 80: open(file_path, 'wb') creates or truncates the
\* file, or raises OSError and creates nothing.
Open(p) ==
  /\ pc[p] = "open"
  /\ \/ /\ fs' = Put(fs, loc[p].file_path, <<>>)
        /\ clock' = clock + 1
        /\ inv' = [inv EXCEPT ![p].opened = Append(@, loc[p].file_path),
                              ![p].tOpen = clock + 1]
        /\ pc' = [pc EXCEPT ![p] = "stream"]
        /\ UNCHANGED <<loc, log>>
     \/ /\ Raise(p, "OSError", inv[p], fs)
        /\ UNCHANGED <<fs, clock>>
  /\ UNCHANGED <<today, dirExists, out, exit, runs>>

\* download_image, lines 81-83: one chunk of the stream is written when it
\* is not empty; the stream ends and the file is closed; or the stream or
\* the write fails and the file stays as it is.  (Two instances writing one
\* path are modelled as appending to one content.)
\* Stream_cleanup removes the file when the stream fails; Stream_swallow
\* goes on to the metadata after a failed stream.
Stream_cleanup(p, env) ==
  /\ pc[p] = "stream"
  /\ \/ /\ loc[p].n < MaxChunks
        /\ HasBody(loc[p].status)
        /\ \E chunk \in env.chunks :
             fs' = IF Len(chunk) > 0
                     THEN [fs EXCEPT ![loc[p].file_path] = @ \o chunk]
                     ELSE fs
        /\ loc' = [loc EXCEPT ![p].n = @ + 1]
        /\ UNCHANGED <<pc, inv, log>>
     \/ /\ inv' = [inv EXCEPT ![p].trace = Append(@, "Downloaded"), ![p].body = TRUE,
                              ![p].bytes = fs[loc[p].file_path]]
        /\ pc' = [pc EXCEPT ![p] = "meta_open"]
        /\ UNCHANGED <<fs, loc, log>>
     \/ /\ fs' = Remove(fs, loc[p].file_path)
        /\ \E e \in {"ChunkedEncodingError", "OSError"} :
             Raise(p, e, inv[p], Remove(fs, loc[p].file_path))
  /\ UNCHANGED <<today, dirExists, out, exit, runs, clock>>

Stream_swallow(p, env) ==
  /\ pc[p] = "stream"
  /\ \/ /\ loc[p].n < MaxChunks
        /\ HasBody(loc[p].status)
        /\ \E chunk \in env.chunks :
             fs' = IF Len(chunk) > 0
                     THEN [fs EXCEPT ![loc[p].file_path] = @ \o chunk]
                     ELSE fs
        /\ loc' = [loc EXCEPT ![p].n = @ + 1]
        /\ UNCHANGED <<pc, inv, log>>
     \/ /\ inv' = [inv EXCEPT ![p].trace = Append(@, "Downloaded"), ![p].body = TRUE,
                              ![p].bytes = fs[loc[p].file_path]]
        /\ pc' = [pc EXCEPT ![p] = "meta_open"]
        /\ UNCHANGED <<fs, loc, log>>
     \/ /\ pc' = [pc EXCEPT ![p] = "meta_open"]
        /\ UNCHANGED <<fs, loc, inv, log>>
  /\ UNCHANGED <<today, dirExists, out, exit, runs, clock>>

Stream(p, env) ==
  /\ pc[p] = "stream"
  /\ \/ /\ loc[p].n < MaxChunks
        /\ HasBody(loc[p].status)
        /\ \E chunk \in env.chunks :
             fs' = IF Len(chunk) > 0
                     THEN [fs EXCEPT ![loc[p].file_path] = @ \o chunk]
                     ELSE fs
        /\ loc' = [loc EXCEPT ![p].n = @ + 1]
        /\ UNCHANGED <<pc, inv, log>>
     \/ /\ inv' = [inv EXCEPT ![p].trace = Append(@, "Downloaded"), ![p].body = TRUE,
                              ![p].bytes = fs[loc[p].file_path]]
        /\ pc' = [pc EXCEPT ![p] = "meta_open"]
        /\ UNCHANGED <<fs, loc, log>>
     \/ /\ \E e \in {"ChunkedEncodingError", "OSError"} : Raise(p, e, inv[p], fs)
        /\ UNCHANGED fs
  /\ UNCHANGED <<today, dirExists, out, exit, runs, clock>>

\* download_image, lines 88-89: open(metadata_file, 'w') creates or
\* truncates the metadata file, or raises OSError.
MetaOpen(p) ==
  /\ pc[p] = "meta_open"
  /\ \/ /\ fs' = Put(fs, metadata_path(loc[p].date_str), <<>>)
        /\ inv' = [inv EXCEPT ![p].opened = Append(@, metadata_path(loc[p].date_str))]
        /\ pc' = [pc EXCEPT ![p] = "meta_dump"]
        /\ UNCHANGED <<loc, log>>
     \/ /\ Raise(p, "OSError", inv[p], fs)
        /\ UNCHANGED fs
  /\ UNCHANGED <<today, dirExists, out, exit, runs, clock>>

\* download_image, lines 90-92: json.dump and the close of the file write
\* the whole record and the path is returned, or they fail with k items on
\* disk (OSError).
MetaDump_rollback(p) ==
  /\ pc[p] = "meta_dump"
  /\ LET text == json_dump(loc[p].image_data)
         path == metadata_path(loc[p].date_str)
     IN \E k \in 0 .. Len(text), failed \in BOOLEAN :
          LET files == IF failed
                         THEN Remove(Remove(fs, path), loc[p].file_path)
                         ELSE [fs EXCEPT ![path] = text]
          IN /\ fs' = files
             /\ IF failed
                  THEN Raise(p, "OSError", inv[p], files)
                  ELSE Return(p, [inv[p] EXCEPT !.trace = @ \o <<"MetadataWritten", "Done">>], files)
  /\ UNCHANGED <<today, dirExists, out, exit, runs, clock>>

MetaDump(p) ==
  /\ pc[p] = "meta_dump"
  /\ LET text == json_dump(loc[p].image_data)
         path == metadata_path(loc[p].date_str)
     IN \/ LET files == [fs EXCEPT ![path] = text] IN
           /\ fs' = files
           /\ Return(p, [inv[p] EXCEPT !.trace = @ \o <<"MetadataWritten", "Done">>], files)
        \/ \E k \in 0 .. Len(text) :
             LET files == [fs EXCEPT ![path] = SubSeq(text, 1, k)] IN
             /\ fs' = files
             /\ Raise(p, "OSError", inv[p], files)
  /\ UNCHANGED <<today, dirExists, out, exit, runs, clock>>

\* main, line 105: the success line.
MainPrint(p) ==
  /\ pc[p] = "main_print"
  /\ out' = [out EXCEPT ![p] = Append(@, <<"Image downloaded successfully to: ", loc[p].ret>>)]
  /\ exit' = [exit EXCEPT ![p] = "0"]
  /\ pc' = [pc EXCEPT ![p] = "idle"]
  /\ UNCHANGED <<today, dirExists, fs, loc, inv, log, runs, clock>>

\* main, lines 106-107: except Exception prints the error line; anything
\* the handler does not catch ends the process with a traceback, status 1.
MainExcept(p) ==
  /\ pc[p] = "main_except"
  /\ IF main_catches(loc[p].err)
       THEN /\ out' = [out EXCEPT ![p] = Append(@, <<"Error: ", loc[p].err>>)]
            /\ exit' = [exit EXCEPT ![p] = "0"]
       ELSE /\ exit' = [exit EXCEPT ![p] = "1"]
            /\ UNCHANGED out
  /\ pc' = [pc EXCEPT ![p] = "idle"]
  /\ UNCHANGED <<today, dirExists, fs, loc, inv, log, runs, clock>>

Step(p, env) ==
  \/ MainStart(p)
  \/ CtorCheck(p)
  \/ CtorMkdir(p)
  \/ Fetch(p, env)
  \/ Check(p)
  \/ Get(p, env)
  \/ Open(p)
  \/ Stream(p, env)
  \/ MetaOpen(p)
  \/ MetaDump(p)
  \/ MainPrint(p)
  \/ MainExcept(p)

\* One instance: the runs of main follow one another.
Next == Step(1, Env)

Spec == Init /\ [][Next]_vars

\* Two instances share the save directory.
NextConc == \E p \in Procs : Step(p, ConcEnv)

SpecConc == Init /\ [][NextConc]_vars

\* ------------------------------------------------- reading the history
\* The spec's error taxonomy over the exceptions the code raises:
\* NetworkError is requests' RequestException family, MalformedResponseError
\* is what parsing and indexing the body raise.
NetworkErrors == {"ConnectionError", "HTTPError", "ChunkedEncodingError"}
MalformedErrors == {"JSONDecodeError", "KeyError", "IndexError"}

\* download_image of p has just returned or raised to main.
Finished(p) == pc[p] \in {"main_print", "main_except"} /\ inv[p].trace # <<>>

\* No run of main is inside download_image.
Quiet == \A p \in Procs : pc[p] \in {"idle", "main_print", "main_except", "ctor_check", "ctor_mkdir"}

\* The invocation of entry e got its metadata record and derived its path.
Fetched(e) == Len(e.trace) >= 2

SamePath(e, f) ==
  /\ Fetched(e) /\ Fetched(f)
  /\ e.date_str = f.date_str
  /\ title_of(e.image_data) = title_of(f.image_data)

IsPrefix(s, t) == Len(s) <= Len(t) /\ s = SubSeq(t, 1, Len(s))

SkipTrace == <<"Init", "FetchedMetadata", "Skipped", "Done">>
DownloadTrace == <<"Init", "FetchedMetadata", "Downloaded", "MetadataWritten", "Done">>

\* The invocation of entry e opened the image file and its stream or write
\* failed before the body ended.
PartialFailure(e) ==
  /\ e.result = "raised"
  /\ e.opened = <<e.file_path>>
  /\ ~e.body

\* ------------------------------------------------------------ the claims

\* C1: idempotence of download_image. When a call returned successfully, a
\* later call with the same date and the same title returns the same path,
\* issues no image GET (one GET over the two calls when the first one
\* downloaded) and leaves the image file's content as the first call left it.
C1_Idempotence ==
  \A i, j \in DOMAIN log :
    (i < j /\ log[i].result = "returned" /\ SamePath(log[i], log[j]))
      => /\ log[j].result = "returned"
         /\ log[j].ret = log[i].ret
         /\ log[j].gets = 0
         /\ log[i].gets + log[j].gets = (IF log[i].trace = DownloadTrace THEN 1 ELSE 0)
         /\ log[j].after[log[j].ret] = log[i].after[log[i].ret]

C1_Witness ==
  \E i, j \in DOMAIN log :
    /\ i < j /\ SamePath(log[i], log[j])
    /\ log[i].trace = DownloadTrace
    /\ log[j].trace = SkipTrace
    /\ log[i].image_data # log[j].image_data

\* C2: the skip path leaves the file system unchanged. An invocation that
\* finds a file at file_path returns that path, issues no image GET, opens
\* no file for writing and leaves every file as it was; and while only
\* invocations with that date and title follow an invocation that left the
\* image without the metadata file, the metadata file stays absent.
C2_SkipFrame ==
  /\ \A j \in DOMAIN log :
       (Fetched(log[j]) /\ exists(log[j].before, log[j].file_path))
         => /\ log[j].result = "returned"
            /\ log[j].ret = log[j].file_path
            /\ log[j].trace = SkipTrace
            /\ log[j].gets = 0
            /\ log[j].opened = <<>>
            /\ log[j].after = log[j].before
  /\ \A i, j \in DOMAIN log :
       ( /\ i < j
         /\ \A k \in i .. j : SamePath(log[i], log[k])
         /\ exists(log[i].after, log[i].file_path)
         /\ ~exists(log[i].after, metadata_path(log[i].date_str)) )
         => ~exists(log[j].after, metadata_path(log[i].date_str))

C2_Witness ==
  \E i, j \in DOMAIN log :
    /\ i < j /\ SamePath(log[i], log[j])
    /\ log[j].trace = SkipTrace
    /\ ~exists(log[j].after, metadata_path(log[j].date_str))

\* C3: transport failure. When either endpoint answers with a non-2xx
\* status, download_image fails and the save directory is as it was before
\* the invocation: no image file, no partial file and no metadata file is
\* created or modified.  (The class of the error is left aside: the claim
\* already fails on what it says of the directory.)
C3_Non2xxFails ==
  \A p \in Procs :
    inv[p].non2xx
      => /\ inv[p].opened = <<>>
         /\ Finished(p) => (inv[p].result = "raised" /\ fs = inv[p].before)

\* An image endpoint's 3xx answer passed the status check and the image and
\* the metadata were written from it.
C3_Witness ==
  /\ Finished(1) /\ inv[1].non2xx
  /\ inv[1].result = "returned"
  /\ inv[1].trace = DownloadTrace
  /\ fs # inv[1].before

\* C4: malformed response. When the metadata body is not valid JSON, or its
\* images array is absent or empty, the invocation fails without deriving an
\* image URL, issues no image GET and opens no file; the error is a
\* MalformedResponseError whenever the status check let the response through.
C4_Malformed ==
  \A p \in Procs :
    (Finished(p) /\ inv[p].malformed)
      => /\ inv[p].result = "raised"
         /\ inv[p].trace = <<"Init">>
         /\ loc[p].image_url = <<>>
         /\ inv[p].gets = 0
         /\ inv[p].opened = <<>>
         /\ fs = inv[p].before
         /\ (~inv[p].non2xx => loc[p].err \in MalformedErrors)
         /\ loc[p].err \in MalformedErrors \cup {"HTTPError"}

C4_Witness ==
  /\ Finished(1) /\ inv[1].malformed /\ ~inv[1].non2xx
  /\ loc[1].err = "IndexError"
  /\ fs # <<>>

\* C5: the state machine of one invocation. The states visited are a prefix
\* of Init, FetchedMetadata, Skipped, Done or of Init, FetchedMetadata,
\* Downloaded, MetadataWritten, Done, and the whole of one of them when the
\* invocation returns; each endpoint is requested at most once; the metadata
\* file is opened only after the image GET succeeded and the whole body was
\* written; at most one image file and one metadata file are opened.
C5_StateMachine ==
  \A p \in Procs :
    LET i == inv[p] IN
    (i.trace # <<>>) =>
      /\ IsPrefix(i.trace, SkipTrace) \/ IsPrefix(i.trace, DownloadTrace)
      /\ (i.result = "returned") => i.trace \in {SkipTrace, DownloadTrace}
      /\ (i.result = "raised") => i.trace \notin {SkipTrace, DownloadTrace}
      /\ i.mgets <= 1 /\ i.gets <= 1
      /\ IsPrefix(i.opened, <<loc[p].file_path, metadata_path(loc[p].date_str)>>)
      /\ (Len(i.opened) >= 1) => i.gets = 1
      /\ (Len(i.opened) = 2) => (i.body /\ IsPrefix(<<"Init", "FetchedMetadata", "Downloaded">>, i.trace))
      /\ IsPrefix(<<"Init", "FetchedMetadata", "Skipped">>, i.trace) => (i.gets = 0 /\ i.opened = <<>>)

C5_Witness ==
  /\ Finished(1)
  /\ inv[1].trace = DownloadTrace
  /\ inv[1].gets = 1 /\ inv[1].mgets = 1
  /\ Len(inv[1].opened) = 2
  /\ Len(log) = 2 /\ PartialFailure(log[1])

\* C6: the outcome of main. A run of main that ended printed exactly one
\* line on standard output, the success line with the returned path when
\* download_image returned and an error line otherwise (a failure to create
\* the save directory included), and ended with status 0 in both cases; a
\* run that has not ended has printed nothing.
C6_MainOutcome ==
  \A p \in Procs :
    /\ (exit[p] = "running") => out[p] = <<>>
    /\ (exit[p] \notin {"none", "running"}) =>
         /\ exit[p] = "0"
         /\ Len(out[p]) = 1
         /\ IF inv[p].result = "returned"
              THEN out[p][1] = <<"Image downloaded successfully to: ", loc[p].file_path>>
              ELSE out[p][1] = <<"Error: ", loc[p].err>> /\ loc[p].err \in Exceptions

C6_Witness ==
  /\ pc[1] = "idle" /\ exit[1] = "0"
  /\ ~dirExists
  /\ out[1] = << <<"Error: ", "OSError">> >>

\* C7: no rollback. When the metadata write fails after the image body was
\* written completely, the error reaches the caller and the image file is on
\* disk at file_path with the content it was closed with.
C7_NoRollback ==
  \A p \in Procs :
    (Finished(p) /\ inv[p].body /\ inv[p].result = "raised")
      => /\ loc[p].err = "OSError"
         /\ exists(fs, loc[p].file_path)
         /\ fs[loc[p].file_path] = inv[p].bytes
         /\ pc[p] = "main_except"

C7_Witness ==
  /\ Finished(1) /\ inv[1].body /\ inv[1].result = "raised"
  /\ inv[1].bytes = <<7>>
  /\ Len(inv[1].opened) = 2

\* C8: a partial download is kept and poisons later runs. When the stream
\* fails after the image file was opened, the invocation fails, the file is
\* left at file_path and the invocation does not touch the metadata file;
\* every later invocation with that date and title takes the skip path,
\* returns the path and leaves the file as the failed invocation left it.
C8_PartialPoisons ==
  \A i \in DOMAIN log :
    PartialFailure(log[i]) =>
      LET path == log[i].file_path
          meta == metadata_path(log[i].date_str)
      IN /\ exists(log[i].after, path)
         /\ exists(log[i].after, meta) = exists(log[i].before, meta)
         /\ exists(log[i].after, meta) => log[i].after[meta] = log[i].before[meta]
         /\ \A j \in DOMAIN log :
              (i < j /\ SamePath(log[i], log[j]))
                => /\ log[j].result = "returned"
                   /\ log[j].ret = path
                   /\ log[j].trace = SkipTrace
                   /\ log[j].gets = 0
                   /\ log[j].after[path] = log[i].after[path]

C8_Witness ==
  \E i, j \in DOMAIN log :
    /\ i < j /\ PartialFailure(log[i]) /\ SamePath(log[i], log[j])
    /\ log[j].result = "returned"
    /\ ~exists(log[j].after, metadata_path(log[j].date_str))

\* C9: the check-then-write race. Two invocations that both issued the image
\* GET and opened the same image path ran concurrently: each passed its
\* existence check before the other created the file. Invocations that
\* follow one another never both download one path.
C9_DuplicateOnlyByRace ==
  \A i, j \in DOMAIN log :
    ( /\ i # j
      /\ Len(log[i].opened) >= 1 /\ Len(log[j].opened) >= 1
      /\ log[i].opened[1] = log[j].opened[1] )
      => /\ log[i].proc # log[j].proc
         /\ log[i].tCheck < log[j].tOpen
         /\ log[j].tCheck < log[i].tOpen

C9_Witness ==
  \E i, j \in DOMAIN log :
    /\ i # j
    /\ log[i].gets = 1 /\ log[j].gets = 1
    /\ log[i].trace = DownloadTrace /\ log[j].trace = DownloadTrace
    /\ log[i].opened = log[j].opened
    /\ log[i].tCheck < log[j].tOpen /\ log[j].tCheck < log[i].tOpen

\* The dates for which a metadata file is on disk.
DatesWithMetadata == {d \in {strftime(Days[k]) : k \in 1 .. MaxDate} : exists(fs, metadata_path(d))}

\* Some image of date d is on disk with the content it was closed with.
CompleteImage(d) ==
  \E i \in DOMAIN log :
    /\ log[i].date_str = d /\ log[i].body
    /\ exists(fs, log[i].file_path)
    /\ fs[log[i].file_path] = log[i].bytes

\* The invocations of date d that opened the metadata file.
MetaWriters(d) == {i \in DOMAIN log : log[i].date_str = d /\ Len(log[i].opened) = 2}

\* The invocations of date d that completed a download.
Completed(d) == {i \in DOMAIN log : log[i].date_str = d /\ log[i].trace = DownloadTrace}

Last(S) == CHOOSE i \in S : \A k \in S : k <= i

\* C10 as stated: when {date}_metadata.json exists, a complete image of that
\* date exists and the stored metadata is the record of the most recent
\* invocation of that date that completed a download.
C10_MetadataIsLastRecord ==
  Quiet =>
    \A d \in DatesWithMetadata :
      /\ CompleteImage(d)
      /\ Completed(d) # {}
      /\ fs[metadata_path(d)] = json_dump(log[Last(Completed(d))].image_data)

\* C10 amended: when {date}_metadata.json exists, a complete image of that
\* date exists, and the file holds what the most recent invocation of that
\* date that opened it wrote: the whole record when it returned, a prefix
\* of the record's text (possibly empty) when its write failed.
C10_MetadataOfLastWriter ==
  Quiet =>
    \A d \in DatesWithMetadata :
      /\ CompleteImage(d)
      /\ MetaWriters(d) # {}
      /\ LET e == log[Last(MetaWriters(d))]
             text == json_dump(e.image_data)
             stored == fs[metadata_path(d)]
         IN /\ e.body
            /\ IF e.result = "returned"
                 THEN stored = text
                 ELSE IsPrefix(stored, text)

C10_Witness ==
  /\ Quiet
  /\ Len(log) = 2
  /\ log[1].trace = DownloadTrace
  /\ log[2].date_str = log[1].date_str
  /\ Len(log[2].opened) = 2 /\ log[2].result = "raised"
  /\ fs[metadata_path(log[1].date_str)] # json_dump(log[1].image_data)
====
